---- MODULE Spec2Model ----
(***************************************************************************)
(* Coordinator agent of the VoC platform: the LangGraph workflow of        *)
(* agents/coordinator/src/agent.py (nodes, router, conditional edges), the *)
(* BudgetTracker ledger of budget_tracker.py and the in-memory queue       *)
(* client (agents/scraper/src/pulsar_client.py, the simplified copy of the *)
(* coordinator's client).                                                  *)
(*                                                                         *)
(* Money is counted in cents (0.02 USD = 2, 100 USD = 10000); sums are     *)
(* exact.  Timestamps, error texts and printed output are left out.        *)
(* An optional value is a sequence: None is <<>>, a present value <<v>>.   *)
(***************************************************************************)
EXTENDS Integers, Sequences, FiniteSets, TLC

\* ------------------------------------------------------------------ bounds
\* Number of job messages producers put on scrape.jobs in one behaviour.
MaxJobs == 2
\* Number of direct ledger calls (add_cost / reset) in one LedgerSpec behaviour.
MaxCalls == 3

\* --------------------------------------------------------------- constants
ScrapeCost == 2
TagCost == 5
DefaultCap == 10000

None == <<>>

\* Caps the environment variable COORDINATOR_BUDGET_CAP_USD is set to (cents).
Caps == {0, 1, 10, DefaultCap}

\* Job ids a producer supplies; "None" stands for a message without the key.
SuppliedIds == {"j1", "j2", "None"}
\* domain_verified as found in the message; "None" stands for a missing key.
DomainValues == {"True", "False", "None"}

\* Bodies of scrape.jobs messages: a JSON object, valid JSON that is not an
\* object (a list, a string, null), or bytes json.loads rejects.
JobBodies ==
    [kind : {"dict"}, id : SuppliedIds, domain_verified : DomainValues]
    \cup {[kind |-> "nondict", id |-> "None", domain_verified |-> "None"],
          [kind |-> "unparseable", id |-> "None", domain_verified |-> "None"]}

\* AgentState.job default_factory=dict: the empty dict.
EmptyJob == [kind |-> "dict", id |-> "None", domain_verified |-> "None"]

\* Values of uuid.uuid4(), in the order they are drawn.
uuid4(n) == "uuid-" \o ToString(n)

TopicOrder == <<"scrape.jobs", "scrape.results", "tag.complete",
                "analysis.jobs", "analysis.done">>
TopicNames == {TopicOrder[i] : i \in 1..Len(TopicOrder)}

OperationTypes == {"scraping", "tagging", "embedding", "analysis", "other"}

VARIABLES
    BUDGET_CAP_USD,          \* agent.py:42 and BudgetTracker.budget_cap
    STOP_ON_UNKNOWN_DOMAINS, \* agent.py:41
    job, scrape_results, tagging_results, graph_results, stop_conditions,
    budget_used, need_human_approval, human_approval_reason, errors, status,
    pc,                      \* the node the compiled graph is at
    phase,                   \* "node": pc runs next; "edge": pc has returned
    message,                 \* the message get_next_job received last
    total_cost, jobs, operations_cost,   \* BudgetTracker
    topics,                  \* PulsarClient.topics
    uuids,                   \* number of uuid4() values drawn
    sent,                    \* number of job messages produced so far
    calls,                   \* number of direct ledger calls so far
    call,                    \* the last direct ledger call and what it returned
    threads,                 \* callers that are inside add_cost concurrently
    consumer                 \* a consumer loop or a direct user of a queue client

agentState == <<job, scrape_results, tagging_results, graph_results,
                stop_conditions, budget_used, need_human_approval,
                human_approval_reason, errors, status>>
config == <<BUDGET_CAP_USD, STOP_ON_UNKNOWN_DOMAINS>>
ledger == <<total_cost, jobs, operations_cost>>
caller == <<calls, call, threads, consumer>>
vars == <<config, agentState, pc, phase, message, ledger, topics, uuids, sent,
          caller>>

\* ------------------------------------------------------------ BudgetTracker
\* BudgetTracker.__init__ / reset: the per-category totals.
ZeroOperationsCost == [t \in OperationTypes |-> 0]

\* BudgetTracker.__init__ / reset: self.jobs = {}.
NoJobs == [j \in {} |-> [total_cost |-> 0, operations |-> <<>>]]

\* add_cost without lines 45-46: the operation type is used as given.
CoerceType_Uncoerced(ops, operation_type) == operation_type

\* add_cost, lines 44-46: an operation type that is not a key becomes "other".
CoerceType(ops, operation_type) ==
    IF operation_type \in DOMAIN ops THEN operation_type ELSE "other"

\* add_cost, lines 48-54: the job's record, created on first use.
JobRecord(js, job_id) ==
    IF job_id \in DOMAIN js THEN js[job_id]
    ELSE [total_cost |-> 0, operations |-> <<>>]

\* add_cost, line 58, on the operation type as given: an assignment to a
\* key the dict does not have creates the key.
AddOperationCost_NewKey(ops, operation_type, cost) ==
    [t \in DOMAIN ops \cup {operation_type} |->
        IF t = operation_type
        THEN (IF t \in DOMAIN ops THEN ops[t] ELSE 0) + cost
        ELSE ops[t]]

\* add_cost, line 58: the per-category total.
AddOperationCost(ops, operation_type, cost) ==
    [ops EXCEPT ![CoerceType(ops, operation_type)] = @ + cost]

\* add_cost with line 61 as an assignment: the job's total is the last cost.
AddJobCost_Overwrite(js, job_id, operation_type, cost) ==
    [j \in DOMAIN js \cup {job_id} |->
        IF j = job_id
        THEN [total_cost |-> cost,
              operations |-> Append(JobRecord(js, job_id).operations,
                                    [type |-> operation_type, cost |-> cost])]
        ELSE js[j]]

\* add_cost, lines 48-66: the per-job total and the job's list of entries.
AddJobCost(js, job_id, operation_type, cost) ==
    [j \in DOMAIN js \cup {job_id} |->
        IF j = job_id
        THEN [total_cost |-> JobRecord(js, job_id).total_cost + cost,
              operations |-> Append(JobRecord(js, job_id).operations,
                                    [type |-> operation_type, cost |-> cost])]
        ELSE js[j]]

\* BudgetTracker.add_cost: all three views, in one call.
add_cost(job_id, operation_type, cost) ==
    /\ total_cost' = total_cost + cost
    /\ operations_cost' = AddOperationCost(operations_cost, operation_type, cost)
    /\ jobs' = AddJobCost(jobs, job_id,
                          CoerceType(operations_cost, operation_type), cost)

\* add_cost, line 72: the value returned, the job's total after the update.
add_cost_result(js, job_id) == js[job_id].total_cost

\* BudgetTracker.get_job_cost
get_job_cost(js, job_id) ==
    IF job_id \in DOMAIN js THEN js[job_id].total_cost ELSE 0

\* would_exceed_budget with ">=" for ">".
would_exceed_budget_AtLeast(cost) == (total_cost + cost) >= BUDGET_CAP_USD

\* BudgetTracker.would_exceed_budget
would_exceed_budget(cost) == (total_cost + cost) > BUDGET_CAP_USD

\* Callers that may be inside add_cost at the same time.
Workers == {"w1", "w2"}

\* No caller is inside add_cost.
IdleThreads ==
    [w \in Workers |-> [at |-> "idle", job_id |-> "None",
                        operation_type |-> "None", cost |-> 0, read |-> 0]]

\* reset without line 133: the per-job records are kept.
reset_KeepsJobs ==
    /\ total_cost' = 0
    /\ jobs' = jobs
    /\ operations_cost' = ZeroOperationsCost

\* BudgetTracker.reset
reset ==
    /\ total_cost' = 0
    /\ jobs' = NoJobs
    /\ operations_cost' = ZeroOperationsCost

\* Sum of a function's values over a finite set of keys.
RECURSIVE SumOver(_, _)
SumOver(f, S) ==
    IF S = {} THEN 0
    ELSE LET k == CHOOSE k \in S : TRUE IN f[k] + SumOver(f, S \ {k})

\* The ledger's two derived sums.
SumJobCosts == SumOver([j \in DOMAIN jobs |-> jobs[j].total_cost], DOMAIN jobs)
SumOperationsCost == SumOver(operations_cost, DOMAIN operations_cost)

\* ------------------------------------------------------------- PulsarClient
\* PulsarClient.__init__: every topic empty.
EmptyTopics == [t \in TopicNames |-> <<>>]

\* send_message: the stored message; its id is the topic's length at the send.
\* seq tells apart two deliveries whose body and message_id are equal; a
\* message the coordinator publishes carries the seq of the delivery its run
\* works on.
MockMsg(ts, topic, content, seq) ==
    [content |-> content, message_id |-> Len(ts[topic]), seq |-> seq]

\* PulsarClient.send_message
send_message(ts, topic, content, seq) ==
    [ts EXCEPT ![topic] = Append(@, MockMsg(ts, topic, content, seq))]

\* PulsarClient.receive_message: the first message of the topic, not removed.
receive_message(ts, topic) ==
    IF ts[topic] # <<>> THEN <<ts[topic][1]>> ELSE None

\* Positions in a topic that hold a message with this message_id.
Matches(ts, topic, message_id) ==
    {i \in 1..Len(ts[topic]) : ts[topic][i].message_id = message_id}

\* The sequence without its i-th element (list.pop(i)).
Pop(s, i) == SubSeq(s, 1, i - 1) \o SubSeq(s, i + 1, Len(s))

\* Minimum of a non-empty set of integers.
Min(S) == CHOOSE m \in S : \A n \in S : m <= n

\* PulsarClient.acknowledge: topics are scanned in dict order and the first
\* message whose message_id equals the given one is removed.
acknowledge(ts, msg) ==
    LET hit == {k \in 1..Len(TopicOrder) :
                    Matches(ts, TopicOrder[k], msg.message_id) # {}}
    IN IF hit = {} THEN ts
       ELSE LET topic == TopicOrder[Min(hit)]
            IN [ts EXCEPT ![topic] =
                   Pop(@, Min(Matches(ts, topic, msg.message_id)))]

\* No consumer loop runs and nobody holds a message of a queue client.
NoConsumer ==
    [agent |-> "None", client |-> "None", at |-> "idle", iterations |-> 0,
     delivered |-> 0, acks |-> <<>>, held |-> <<>>, ack_messages |-> FALSE,
     outcome |-> "None"]

\* ------------------------------------------------------------------- router
END == "END"

\* router with lines 385-389 merged: awaiting_approval dispatches at once.
router_SkipApproval(errs, st) ==
    IF errs # <<>> THEN "handle_error"
    ELSE IF st = "no_jobs" THEN END
    ELSE IF st = "job_received" THEN "check_stop_conditions"
    ELSE IF st \in {"approved", "awaiting_approval"} THEN "dispatch_scraper"
    ELSE IF st = "scraping_completed" THEN "dispatch_tagger"
    ELSE IF st = "tagging_completed" THEN "create_graph_edges"
    ELSE IF st = "graph_completed" THEN "emit_events"
    ELSE IF st = "completed" THEN "get_next_job"
    ELSE END

\* router(state): the node the conditional edge leads to.
router(errs, st) ==
    IF errs # <<>> THEN "handle_error"
    ELSE IF st = "no_jobs" THEN END
    ELSE IF st = "job_received" THEN "check_stop_conditions"
    ELSE IF st = "awaiting_approval" THEN "request_human_approval"
    ELSE IF st \in {"approved", "job_received"} THEN "dispatch_scraper"
    ELSE IF st = "scraping_completed" THEN "dispatch_tagger"
    ELSE IF st = "tagging_completed" THEN "create_graph_edges"
    ELSE IF st = "graph_completed" THEN "emit_events"
    ELSE IF st = "completed" THEN "get_next_job"
    ELSE END

\* An except clause that sets the status and drops the error entry.
RecordError_Swallowed(step) ==
    /\ errors' = errors
    /\ status' = "error"

\* The except clause of a node: one entry naming the step, status "error".
RecordError(step) ==
    /\ errors' = Append(errors, step)
    /\ status' = "error"

\* A node returns: the graph is at the node's outgoing edge.
Return ==
    /\ phase' = "edge"
    /\ pc' = pc

\* The delivery the current run works on (0 before the first one).
RunSeq == IF message = None THEN 0 ELSE message[1].seq

\* dict.get(key, default) on the job: a key the message did not carry reads
\* as the default.
JobGet(j, key, default) == IF key \in DOMAIN j THEN j[key] ELSE default

\* dispatch_scraper, lines 148-149 and 171: what the simulated content is made
\* for, "url or keywords".
UrlOrKeywords(j) ==
    IF JobGet(j, "url", "None") # "None"
    THEN <<JobGet(j, "url", "None")>>
    ELSE JobGet(j, "keywords", <<>>)

\* A job id that is a JSON array or object, written as its text: a value
\* Python cannot hash, so "job_id not in self.jobs" (budget_tracker.py:49)
\* raises TypeError for it.
UnhashableIds == {"['j1']"}
Unhashable(job_id) == job_id \in UnhashableIds

\* dict.get("id", default) on the job.
JobIdOr(j, default) == IF j.id = "None" THEN default ELSE j.id

\* ", ".join(state.stop_conditions)
RECURSIVE Join(_)
Join(names) ==
    IF names = <<>> THEN ""
    ELSE IF Len(names) = 1 THEN names[1]
    ELSE names[1] \o ", " \o Join(Tail(names))

\* check_stop_conditions with the two tests in the other order.
StopConditions_UnknownFirst(used, cap, policy, j) ==
    (IF policy /\ j.domain_verified \in {"False", "None"}
     THEN <<"unknown_domain">> ELSE <<>>)
    \o (IF used >= cap THEN <<"budget_cap_exceeded">> ELSE <<>>)

\* check_stop_conditions with line 115 as an elif of line 111.
StopConditions_Elif(used, cap, policy, j) ==
    IF used >= cap THEN <<"budget_cap_exceeded">>
    ELSE IF policy /\ j.domain_verified \in {"False", "None"}
    THEN <<"unknown_domain">> ELSE <<>>

\* check_stop_conditions, lines 108-116: the list of conditions that hold.
StopConditions(used, cap, policy, j) ==
    (IF used >= cap THEN <<"budget_cap_exceeded">> ELSE <<>>)
    \o (IF policy /\ j.domain_verified \in {"False", "None"}
        THEN <<"unknown_domain">> ELSE <<>>)

\* get_next_job, lines 82-89, with the budget left as the last run had it.
ResetRunFields_KeepBudget ==
    /\ scrape_results' = None
    /\ tagging_results' = None
    /\ graph_results' = None
    /\ stop_conditions' = <<>>
    /\ budget_used' = budget_used
    /\ need_human_approval' = FALSE
    /\ human_approval_reason' = None

\* get_next_job, lines 82-89, without lines 82-84: the results of the last
\* run are kept.
ResetRunFields_KeepResults ==
    /\ UNCHANGED <<scrape_results, tagging_results, graph_results>>
    /\ stop_conditions' = <<>>
    /\ budget_used' = 0
    /\ need_human_approval' = FALSE
    /\ human_approval_reason' = None

\* get_next_job, lines 82-89: the fields of the previous run are reset.
ResetRunFields ==
    /\ scrape_results' = None
    /\ tagging_results' = None
    /\ graph_results' = None
    /\ stop_conditions' = <<>>
    /\ budget_used' = 0
    /\ need_human_approval' = FALSE
    /\ human_approval_reason' = None

\* -------------------------------------------------------------------- nodes
\* get_next_job.  fault: receive_message raises (a transport error).
get_next_job ==
    /\ pc = "get_next_job"
    /\ phase = "node"
    /\ \E fault \in BOOLEAN :
        LET received == receive_message(topics, "scrape.jobs") IN
        IF fault
        THEN \* line 67 raises: this invocation holds no message
             /\ message' = None
             /\ RecordError("get_next_job")
             /\ UNCHANGED <<job, scrape_results, tagging_results, graph_results,
                            stop_conditions, budget_used, need_human_approval,
                            human_approval_reason, topics>>
        ELSE IF received = None
        THEN /\ message' = None
             /\ status' = "no_jobs"
             /\ UNCHANGED <<job, scrape_results, tagging_results, graph_results,
                            stop_conditions, budget_used, need_human_approval,
                            human_approval_reason, errors, topics>>
        ELSE IF received[1].content.kind = "unparseable"
        THEN \* json.loads raises before the acknowledge
             /\ message' = received
             /\ RecordError("get_next_job")
             /\ UNCHANGED <<job, scrape_results, tagging_results, graph_results,
                            stop_conditions, budget_used, need_human_approval,
                            human_approval_reason, topics>>
        ELSE /\ message' = received
             /\ topics' = acknowledge(topics, received[1])
             /\ job' = received[1].content
             /\ ResetRunFields
             /\ IF received[1].content.kind = "nondict"
                THEN \* job_data.get raises at line 93, after the reset
                     /\ errors' = <<"get_next_job">>
                     /\ status' = "error"
                ELSE /\ errors' = <<>>
                     /\ status' = "job_received"
    /\ UNCHANGED <<config, ledger, uuids, sent, caller>>
    /\ Return

\* check_stop_conditions without line 108: the list is appended to.
check_stop_conditions_Accumulates ==
    /\ pc = "check_stop_conditions"
    /\ phase = "node"
    /\ stop_conditions' =
            stop_conditions \o StopConditions(budget_used, BUDGET_CAP_USD,
                                              STOP_ON_UNKNOWN_DOMAINS, job)
    /\ IF stop_conditions' # <<>>
       THEN /\ need_human_approval' = TRUE
            /\ human_approval_reason' = <<Join(stop_conditions')>>
            /\ status' = "awaiting_approval"
       ELSE UNCHANGED <<need_human_approval, human_approval_reason, status>>
    /\ UNCHANGED <<config, job, scrape_results, tagging_results, graph_results,
                   budget_used, errors, message, ledger, topics, uuids, sent,
                   caller>>
    /\ Return

\* check_stop_conditions
check_stop_conditions ==
    /\ pc = "check_stop_conditions"
    /\ phase = "node"
    /\ stop_conditions' = StopConditions(budget_used, BUDGET_CAP_USD,
                                         STOP_ON_UNKNOWN_DOMAINS, job)
    /\ IF stop_conditions' # <<>>
       THEN /\ need_human_approval' = TRUE
            /\ human_approval_reason' = <<Join(stop_conditions')>>
            /\ status' = "awaiting_approval"
       ELSE UNCHANGED <<need_human_approval, human_approval_reason, status>>
    /\ UNCHANGED <<config, job, scrape_results, tagging_results, graph_results,
                   budget_used, errors, message, ledger, topics, uuids, sent,
                   caller>>
    /\ Return

\* request_human_approval without lines 138-139: the request stays open.
request_human_approval_Blocks ==
    /\ pc = "request_human_approval"
    /\ phase = "node"
    /\ UNCHANGED <<need_human_approval, status>>
    /\ UNCHANGED <<config, job, scrape_results, tagging_results, graph_results,
                   stop_conditions, budget_used, human_approval_reason, errors,
                   message, ledger, topics, uuids, sent, caller>>
    /\ Return

\* request_human_approval
request_human_approval ==
    /\ pc = "request_human_approval"
    /\ phase = "node"
    /\ IF ~need_human_approval
       THEN UNCHANGED <<need_human_approval, status>>
       ELSE /\ need_human_approval' = FALSE
            /\ status' = "approved"
    /\ UNCHANGED <<config, job, scrape_results, tagging_results, graph_results,
                   stop_conditions, budget_used, human_approval_reason, errors,
                   message, ledger, topics, uuids, sent, caller>>
    /\ Return

\* dispatch_scraper.  fault: send_message raises.
dispatch_scraper ==
    /\ pc = "dispatch_scraper"
    /\ phase = "node"
    /\ \E fault \in BOOLEAN :
        LET job_id == JobIdOr(job, uuid4(uuids + 1)) IN
        \* the default of dict.get is evaluated whether or not it is used
        /\ uuids' = uuids + 1
        /\ IF fault
           THEN /\ RecordError("dispatch_scraper")
                /\ UNCHANGED <<scrape_results, budget_used, ledger, topics>>
           ELSE /\ topics' = send_message(topics, "scrape.results",
                                 [kind |-> "scraper_job", job_id |-> job_id],
                                 RunSeq)
                /\ scrape_results' = <<[job_id |-> job_id,
                                         content |-> UrlOrKeywords(job)]>>
                /\ budget_used' = budget_used + ScrapeCost
                /\ IF Unhashable(job_id)
                   THEN \* add_cost raises at line 189, after lines 182-188
                        /\ RecordError("dispatch_scraper")
                        /\ UNCHANGED ledger
                   ELSE /\ status' = "scraping_completed"
                        /\ add_cost(job_id, "scraping", ScrapeCost)
                        /\ UNCHANGED errors
    /\ UNCHANGED <<config, job, tagging_results, graph_results, stop_conditions,
                   need_human_approval, human_approval_reason, message, sent,
                   caller>>
    /\ Return

\* dispatch_tagger.  fault: send_message raises.
dispatch_tagger ==
    /\ pc = "dispatch_tagger"
    /\ phase = "node"
    /\ \E fault \in BOOLEAN :
        IF scrape_results = None \/ fault
        THEN /\ RecordError("dispatch_tagger")
             /\ UNCHANGED <<tagging_results, budget_used, ledger, topics>>
        ELSE LET job_id == JobIdOr(job, scrape_results[1].job_id) IN
             /\ topics' = send_message(topics, "tag.complete",
                              [kind |-> "tagger_job", job_id |-> job_id],
                              RunSeq)
             /\ tagging_results' = <<[job_id |-> job_id, entities |-> 2]>>
             /\ budget_used' = budget_used + TagCost
             /\ IF Unhashable(job_id)
                THEN \* add_cost raises at line 252, after lines 245-251
                     /\ RecordError("dispatch_tagger")
                     /\ UNCHANGED ledger
                ELSE /\ status' = "tagging_completed"
                     /\ add_cost(job_id, "tagging", TagCost)
                     /\ UNCHANGED errors
    /\ UNCHANGED <<config, job, scrape_results, graph_results, stop_conditions,
                   need_human_approval, human_approval_reason, message, uuids,
                   sent, caller>>
    /\ Return

\* create_graph_edges without lines 267-274: a missing tagging result is read
\* as one without entities.
create_graph_edges_Unchecked ==
    /\ pc = "create_graph_edges"
    /\ phase = "node"
    /\ \E fault \in BOOLEAN :
        IF fault
        THEN /\ RecordError("create_graph_edges")
             /\ UNCHANGED graph_results
        ELSE /\ graph_results' =
                    <<[edges_created |->
                        IF tagging_results = None THEN 0
                        ELSE tagging_results[1].entities]>>
             /\ status' = "graph_completed"
             /\ UNCHANGED errors
    /\ UNCHANGED <<config, job, scrape_results, tagging_results,
                   stop_conditions, budget_used, need_human_approval,
                   human_approval_reason, message, ledger, topics, uuids, sent,
                   caller>>
    /\ Return

\* create_graph_edges.  fault: an exception raised inside the try block.
create_graph_edges ==
    /\ pc = "create_graph_edges"
    /\ phase = "node"
    /\ \E fault \in BOOLEAN :
        IF tagging_results = None \/ fault
        THEN /\ RecordError("create_graph_edges")
             /\ UNCHANGED graph_results
        ELSE /\ graph_results' =
                    <<[edges_created |-> tagging_results[1].entities]>>
             /\ status' = "graph_completed"
             /\ UNCHANGED errors
    /\ UNCHANGED <<config, job, scrape_results, tagging_results,
                   stop_conditions, budget_used, need_human_approval,
                   human_approval_reason, message, ledger, topics, uuids, sent,
                   caller>>
    /\ Return

\* emit_events with the exception raised after the send instead of by it.
emit_events_FailsAfterSend ==
    /\ pc = "emit_events"
    /\ phase = "node"
    /\ \E fault \in BOOLEAN :
        IF tagging_results = None \/ graph_results = None
        THEN /\ RecordError("emit_events")
             /\ UNCHANGED topics
        ELSE /\ topics' = send_message(topics, "analysis.jobs",
                              [kind |-> "event", job_id |-> job.id], RunSeq)
             /\ IF fault
                THEN RecordError("emit_events")
                ELSE status' = "completed" /\ UNCHANGED errors
    /\ UNCHANGED <<config, job, scrape_results, tagging_results, graph_results,
                   stop_conditions, budget_used, need_human_approval,
                   human_approval_reason, message, ledger, uuids, sent, caller>>
    /\ Return

\* emit_events.  fault: send_message raises.
emit_events ==
    /\ pc = "emit_events"
    /\ phase = "node"
    /\ \E fault \in BOOLEAN :
        IF tagging_results = None \/ graph_results = None \/ fault
        THEN /\ RecordError("emit_events")
             /\ UNCHANGED topics
        ELSE /\ topics' = send_message(topics, "analysis.jobs",
                              [kind |-> "event", job_id |-> job.id], RunSeq)
             /\ status' = "completed"
             /\ UNCHANGED errors
    /\ UNCHANGED <<config, job, scrape_results, tagging_results, graph_results,
                   stop_conditions, budget_used, need_human_approval,
                   human_approval_reason, message, ledger, uuids, sent, caller>>
    /\ Return

\* handle_error with another word at line 367.
handle_error_Aborted ==
    /\ pc = "handle_error"
    /\ phase = "node"
    /\ IF job.kind # "dict"
       THEN /\ pc' = "crashed"
            /\ UNCHANGED status
       ELSE /\ status' = "aborted"
            /\ pc' = END
    /\ UNCHANGED phase
    /\ UNCHANGED <<config, job, scrape_results, tagging_results, graph_results,
                   stop_conditions, budget_used, need_human_approval,
                   human_approval_reason, errors, message, ledger, topics,
                   uuids, sent, caller>>

\* handle_error, then the edge handle_error -> END.  state.job.get at line
\* 360 raises when the job is not a dict, before the status is set.
handle_error ==
    /\ pc = "handle_error"
    /\ phase = "node"
    /\ IF job.kind # "dict"
       THEN /\ pc' = "crashed"
            /\ UNCHANGED status
       ELSE /\ status' = "failed"
            /\ pc' = END
    /\ UNCHANGED phase
    /\ UNCHANGED <<config, job, scrape_results, tagging_results, graph_results,
                   stop_conditions, budget_used, need_human_approval,
                   human_approval_reason, errors, message, ledger, topics,
                   uuids, sent, caller>>

\* The conditional edge with the targets of approved and scraping_completed
\* exchanged in the mapping of create_workflow.
conditional_edge_Exchanged ==
    /\ phase = "edge"
    /\ pc' = IF router(errors, status) = "dispatch_scraper"
             THEN "dispatch_tagger"
             ELSE IF router(errors, status) = "dispatch_tagger"
             THEN "dispatch_scraper"
             ELSE router(errors, status)
    /\ phase' = "node"
    /\ UNCHANGED <<config, agentState, message, ledger, topics, uuids, sent,
                   caller>>

\* The conditional edge added after every node but handle_error: the router
\* names the node that runs next.
conditional_edge ==
    /\ phase = "edge"
    /\ pc' = router(errors, status)
    /\ phase' = "node"
    /\ UNCHANGED <<config, agentState, message, ledger, topics, uuids, sent,
                   caller>>

\* A producer puts a job message on scrape.jobs (send_message on the broker).
Enqueue ==
    /\ sent < MaxJobs
    /\ \E body \in JobBodies :
        topics' = send_message(topics, "scrape.jobs", body, sent + 1)
    /\ sent' = sent + 1
    /\ UNCHANGED <<config, agentState, pc, phase, message, ledger, uuids, caller>>

\* ----------------------------------------------------------- specification
\* Module load (agent.py:33-42), AgentState defaults and the entry point.
Init ==
    /\ BUDGET_CAP_USD \in Caps
    /\ STOP_ON_UNKNOWN_DOMAINS \in BOOLEAN
    /\ job = EmptyJob
    /\ scrape_results = None
    /\ tagging_results = None
    /\ graph_results = None
    /\ stop_conditions = <<>>
    /\ budget_used = 0
    /\ need_human_approval = FALSE
    /\ human_approval_reason = None
    /\ errors = <<>>
    /\ status = "pending"
    /\ pc = "get_next_job" /\ phase = "node"
    /\ message = None
    /\ total_cost = 0
    /\ jobs = NoJobs
    /\ operations_cost = ZeroOperationsCost
    /\ topics = EmptyTopics
    /\ uuids = 0
    /\ sent = 0
    /\ calls = 0
    /\ call = None
    /\ threads = IdleThreads
    /\ consumer = NoConsumer

Next ==
    \/ get_next_job
    \/ check_stop_conditions
    \/ request_human_approval
    \/ dispatch_scraper
    \/ dispatch_tagger
    \/ create_graph_edges
    \/ emit_events
    \/ handle_error
    \/ conditional_edge
    \/ Enqueue

Spec == Init /\ [][Next]_vars

\* ------------------------------------------------- the ledger called directly
\* Arguments of direct add_cost calls: job ids, operation types (one of them
\* not a ledger category) and amounts in cents.
LedgerJobIds == {"j1", "j2"}
LedgerOperationTypes == {"scraping", "tagging", "analysis", "crawling"}
Amounts == {-2, 2, 5}

\* A caller invokes budget_tracker.add_cost(job_id, operation_type, cost).
AddCostCall ==
    /\ calls < MaxCalls
    /\ \E job_id \in LedgerJobIds, operation_type \in LedgerOperationTypes,
          cost \in Amounts :
            /\ add_cost(job_id, operation_type, cost)
            /\ call' = <<[op |-> "add_cost", job_id |-> job_id,
                          operation_type |-> operation_type, cost |-> cost,
                          result |-> add_cost_result(jobs', job_id)]>>
    /\ calls' = calls + 1
    /\ UNCHANGED <<config, agentState, pc, phase, message, topics, uuids, sent,
                   threads, consumer>>

\* Amounts asked about: a small one and three around what is left of the cap
\* after one tagging cost.
QueriedAmounts ==
    {ScrapeCost, DefaultCap - TagCost - 1, DefaultCap - TagCost,
     DefaultCap - TagCost + 1}

\* A caller invokes budget_tracker.would_exceed_budget(cost); the bool it
\* returns is kept as 1 or 0 (True == 1 in Python).
WouldExceedCall ==
    /\ calls < MaxCalls
    /\ \E cost \in QueriedAmounts :
            call' = <<[op |-> "would_exceed_budget", job_id |-> "None",
                       operation_type |-> "None", cost |-> cost,
                       result |-> IF would_exceed_budget(cost) THEN 1 ELSE 0]>>
    /\ calls' = calls + 1
    /\ UNCHANGED <<config, agentState, pc, phase, message, ledger, topics,
                   uuids, sent, threads, consumer>>

\* An administrator invokes budget_tracker.reset().
ResetCall ==
    /\ calls < MaxCalls
    /\ reset
    /\ call' = <<[op |-> "reset", job_id |-> "None", operation_type |-> "None",
                  cost |-> 0, result |-> 0]>>
    /\ calls' = calls + 1
    /\ UNCHANGED <<config, agentState, pc, phase, message, topics, uuids, sent,
                   threads, consumer>>

\* The environment defaults: cap "100", unknown-domain policy "true".
LedgerInit ==
    /\ Init
    /\ BUDGET_CAP_USD = DefaultCap
    /\ STOP_ON_UNKNOWN_DOMAINS = TRUE

LedgerNext ==
    \/ AddCostCall
    \/ ResetCall
    \/ WouldExceedCall

LedgerSpec == LedgerInit /\ [][LedgerNext]_vars

\* ------------------------------------------ add_cost entered concurrently
\* The ledger is one module-level object (agent.py:36) and add_cost takes no
\* lock: each of its statements that updates the ledger is a read followed by
\* a write, and another caller can run between the two.
ConcOperationTypes == {"scraping", "crawling"}
ConcAmounts == {ScrapeCost, TagCost}

\* The statement that follows a completed write: lines 49, 57, 58 and 61 are
\* the ones that read and then write the ledger.
NextStatement(at) ==
    IF at = "49w" THEN "57"
    ELSE IF at = "57w" THEN "58"
    ELSE IF at = "58w" THEN "61"
    ELSE "done"

\* A caller enters add_cost(job_id, operation_type, cost); lines 45-46 coerce
\* the operation type.
AddCostBegin(w) ==
    /\ threads[w].at = "idle"
    /\ \E job_id \in LedgerJobIds, operation_type \in ConcOperationTypes,
          cost \in ConcAmounts :
            threads' = [threads EXCEPT ![w] =
                [at |-> "49", job_id |-> job_id,
                 operation_type |-> CoerceType(operations_cost, operation_type),
                 cost |-> cost, read |-> 0]]
    /\ UNCHANGED <<config, agentState, pc, phase, message, ledger, topics,
                   uuids, sent, calls, call, consumer>>

\* The read half of the caller's current statement: the membership test of
\* line 49 (1 when the job is missing), or the left operand of a "+=".
AddCostRead(w) ==
    LET t == threads[w] IN
    /\ t.at \in {"49", "57", "58", "61"}
    /\ threads' = [threads EXCEPT
            ![w].at = t.at \o "w",
            ![w].read =
                IF t.at = "49" THEN (IF t.job_id \in DOMAIN jobs THEN 0 ELSE 1)
                ELSE IF t.at = "57" THEN total_cost
                ELSE IF t.at = "58" THEN operations_cost[t.operation_type]
                ELSE jobs[t.job_id].total_cost]
    /\ UNCHANGED <<config, agentState, pc, phase, message, ledger, topics,
                   uuids, sent, calls, call, consumer>>

\* The write half: line 50 stores a new job record, lines 57, 58 and 61 store
\* the value read plus the cost; line 61 is followed by the append of lines
\* 62-66 and the return.
AddCostWrite(w) ==
    LET t == threads[w] IN
    /\ t.at \in {"49w", "57w", "58w", "61w"}
    /\ total_cost' = IF t.at = "57w" THEN t.read + t.cost ELSE total_cost
    /\ operations_cost' =
            IF t.at = "58w"
            THEN [operations_cost EXCEPT ![t.operation_type] = t.read + t.cost]
            ELSE operations_cost
    /\ jobs' =
            IF t.at = "49w" /\ t.read = 1
            THEN [j \in DOMAIN jobs \cup {t.job_id} |->
                    IF j = t.job_id
                    THEN [total_cost |-> 0, operations |-> <<>>]
                    ELSE jobs[j]]
            ELSE IF t.at = "61w"
            THEN [jobs EXCEPT ![t.job_id] =
                    [total_cost |-> t.read + t.cost,
                     operations |-> Append(@.operations,
                                           [type |-> t.operation_type,
                                            cost |-> t.cost])]]
            ELSE jobs
    /\ threads' = [threads EXCEPT
            ![w].at = NextStatement(t.at)]
    /\ UNCHANGED <<config, agentState, pc, phase, message, topics, uuids, sent,
                   calls, call, consumer>>

ConcNext ==
    \E w \in Workers :
        \/ AddCostBegin(w)
        \/ AddCostRead(w)
        \/ AddCostWrite(w)

ConcSpec == LedgerInit /\ [][ConcNext]_vars

\* ------------------------------------ check_stop_conditions called on its own
\* budget_used values handed to check_stop_conditions (cents).
EvalBudgets == {0, 1, ScrapeCost + TagCost, 10, DefaultCap}

\* domain_verified values of the job: the three of DomainValues and "Null",
\* a JSON null, which is neither True nor the False that line 115 tests for.
EvalDomainValues == DomainValues \cup {"Null"}

\* check_stop_conditions(state) is about to run on a state whose job, budget
\* and earlier conditions are drawn from the sets above.
EvalInit ==
    /\ BUDGET_CAP_USD \in Caps
    /\ STOP_ON_UNKNOWN_DOMAINS \in BOOLEAN
    /\ job \in [kind : {"dict"}, id : {"j1"}, domain_verified : EvalDomainValues]
    /\ scrape_results = None
    /\ tagging_results = None
    /\ graph_results = None
    /\ stop_conditions \in {<<>>, <<"unknown_domain">>, <<"budget_cap_exceeded">>}
    /\ budget_used \in EvalBudgets
    /\ need_human_approval = FALSE
    \* an earlier evaluation that found conditions also left its reason
    /\ human_approval_reason =
            IF stop_conditions = <<>> THEN None ELSE <<Join(stop_conditions)>>
    /\ errors = <<>>
    /\ status = "job_received"
    /\ pc = "check_stop_conditions" /\ phase = "node"
    /\ message = None
    /\ total_cost = 0
    /\ jobs = NoJobs
    /\ operations_cost = ZeroOperationsCost
    /\ topics = EmptyTopics
    /\ uuids = 0
    /\ sent = 0
    /\ calls = 0
    /\ call = None
    /\ threads = IdleThreads
    /\ consumer = NoConsumer

EvalNext == check_stop_conditions

EvalSpec == EvalInit /\ [][EvalNext]_vars

\* ------------------------------------------------- the router called on its own
\* The values of AgentState.status: the default and the words the nodes assign.
Statuses ==
    {"pending", "no_jobs", "job_received", "error", "awaiting_approval",
     "approved", "scraping_completed", "tagging_completed", "graph_completed",
     "completed", "failed"}

\* The nodes create_workflow gives a conditional edge.
RoutedNodes ==
    {"get_next_job", "check_stop_conditions", "request_human_approval",
     "dispatch_scraper", "dispatch_tagger", "create_graph_edges", "emit_events"}

\* router(state) is about to be called at the edge of some node, on a state
\* whose status and error list are drawn from the sets above.
RouteInit ==
    /\ BUDGET_CAP_USD = DefaultCap
    /\ STOP_ON_UNKNOWN_DOMAINS = TRUE
    /\ job = EmptyJob
    /\ scrape_results = None
    /\ tagging_results = None
    /\ graph_results = None
    /\ stop_conditions = <<>>
    /\ budget_used = 0
    /\ need_human_approval = FALSE
    /\ human_approval_reason = None
    /\ errors \in {<<>>, <<"get_next_job">>, <<"dispatch_scraper">>}
    /\ status \in Statuses
    /\ pc \in RoutedNodes /\ phase = "edge"
    /\ message = None
    /\ total_cost = 0
    /\ jobs = NoJobs
    /\ operations_cost = ZeroOperationsCost
    /\ topics = EmptyTopics
    /\ uuids = 0
    /\ sent = 0
    /\ calls = 0
    /\ call = None
    /\ threads = IdleThreads
    /\ consumer = NoConsumer

RouteNext == conditional_edge

RouteSpec == RouteInit /\ [][RouteNext]_vars

\* ------------------------------------------------ a gateway called on its own
\* Jobs handed to the acquisition gateway: with and without a url, with and
\* without keywords.
GatewayJobs ==
    [kind : {"dict"}, id : {"j1", "None"}, domain_verified : {"False", "None"},
     url : {"None", "http://a"}, keywords : {<<>>, <<"k">>}]

\* Numbers of entities in the enrichment result handed to the graph gateway;
\* the simulated tagger of dispatch_tagger returns 2.
EntityCounts == {0, 1, 2}

\* The state of a run that was approved and is about to enter dispatch_scraper
\* (at = "dispatch_scraper"), or that has been scraped and tagged and is about
\* to enter create_graph_edges, with the job or the enrichment result drawn
\* from the sets above.
GatewayInit ==
    /\ BUDGET_CAP_USD \in Caps
    /\ STOP_ON_UNKNOWN_DOMAINS = TRUE
    /\ job \in GatewayJobs
    /\ stop_conditions =
            StopConditions(0, BUDGET_CAP_USD, STOP_ON_UNKNOWN_DOMAINS, job)
    /\ need_human_approval = FALSE
    /\ human_approval_reason = <<Join(stop_conditions)>>
    /\ errors = <<>>
    /\ message = <<[content |-> job, seq |-> 1, message_id |-> 0]>>
    /\ topics \in [TopicNames -> {<<>>}] \cup
            {[t \in TopicNames |->
                IF t = "scrape.results"
                THEN <<[content |-> [kind |-> "scraper_job", job_id |-> "j1"],
                        seq |-> 1, message_id |-> 0]>>
                ELSE IF t = "tag.complete"
                THEN <<[content |-> [kind |-> "tagger_job", job_id |-> "j1"],
                        seq |-> 1, message_id |-> 0]>>
                ELSE <<>>]}
    /\ IF topics = EmptyTopics
       THEN /\ pc = "dispatch_scraper"
            /\ status = "approved"
            /\ scrape_results = None
            /\ tagging_results = None
            /\ budget_used = 0
            /\ total_cost = 0
            /\ jobs = NoJobs
            /\ operations_cost = ZeroOperationsCost
       ELSE /\ pc = "create_graph_edges"
            /\ status = "tagging_completed"
            /\ job.id = "j1" /\ job.url # "None"
            /\ scrape_results = <<[job_id |-> "j1",
                                   content |-> UrlOrKeywords(job)]>>
            /\ \E n \in EntityCounts :
                    tagging_results = <<[job_id |-> "j1", entities |-> n]>>
            /\ budget_used = ScrapeCost + TagCost
            /\ total_cost = ScrapeCost + TagCost
            /\ jobs = AddJobCost(AddJobCost(NoJobs, "j1", "scraping", ScrapeCost),
                                 "j1", "tagging", TagCost)
            /\ operations_cost =
                    [ZeroOperationsCost EXCEPT !["scraping"] = ScrapeCost,
                                               !["tagging"] = TagCost]
    /\ graph_results = None
    /\ phase = "node"
    /\ uuids = 0
    /\ sent = 1
    /\ calls = 0
    /\ call = None
    /\ threads = IdleThreads
    /\ consumer = NoConsumer

GatewayNext ==
    \/ dispatch_scraper
    \/ create_graph_edges
    \/ conditional_edge
    \/ handle_error

GatewaySpec == GatewayInit /\ [][GatewayNext]_vars

\* --------------------------------------------- a stage called out of its order
\* The stages that test for the result of an earlier stage.
CheckedStages == {"dispatch_tagger", "create_graph_edges", "emit_events"}

\* One of the three stages is about to be called on a state in which any of
\* the three results may be missing, as a caller other than the router could
\* do.
StageInit ==
    /\ BUDGET_CAP_USD \in Caps
    /\ STOP_ON_UNKNOWN_DOMAINS = TRUE
    /\ job = [kind |-> "dict", id |-> "j1", domain_verified |-> "False"]
    /\ scrape_results \in {None, <<[job_id |-> "j1", content |-> <<>>]>>}
    /\ tagging_results \in {None, <<[job_id |-> "j1", entities |-> 2]>>}
    /\ graph_results \in {None, <<[edges_created |-> 2]>>}
    /\ stop_conditions = <<"unknown_domain">>
    /\ budget_used = 0
    /\ need_human_approval = FALSE
    /\ human_approval_reason = <<"unknown_domain">>
    /\ errors = <<>>
    /\ status = "approved"
    /\ pc \in CheckedStages /\ phase = "node"
    /\ message = <<[content |-> job, seq |-> 1, message_id |-> 0]>>
    /\ total_cost = 0
    /\ jobs = NoJobs
    /\ operations_cost = ZeroOperationsCost
    /\ topics = EmptyTopics
    /\ uuids = 0
    /\ sent = 1
    /\ calls = 0
    /\ call = None
    /\ threads = IdleThreads
    /\ consumer = NoConsumer

StageNext ==
    \/ dispatch_tagger
    \/ create_graph_edges
    \/ emit_events

StageSpec == StageInit /\ [][StageNext]_vars

\* -------------------------------------------------- jobs that carry a priority
\* The priorities a producer gives a job; "medium" is what dispatch_scraper
\* assumes for a job without one (line 159).
Priorities == <<"low", "medium", "high">>
PrioritizedBodies ==
    [kind : {"dict"}, id : {"j1", "j2"}, domain_verified : {"True"},
     priority : {Priorities[i] : i \in 1..Len(Priorities)}]

\* A producer puts a job with a priority on scrape.jobs.
EnqueuePrioritized ==
    /\ sent < MaxJobs
    /\ \E body \in PrioritizedBodies :
        topics' = send_message(topics, "scrape.jobs", body, sent + 1)
    /\ sent' = sent + 1
    /\ UNCHANGED <<config, agentState, pc, phase, message, ledger, uuids, caller>>

PriorityNext ==
    \/ EnqueuePrioritized
    \/ get_next_job

PrioritySpec == Init /\ [][PriorityNext]_vars

\* ------------------------------------- the workflow with administrative resets
\* The workflow under the environment defaults, with budget_tracker.reset()
\* called from outside at any point of it.
ResetNext ==
    \/ Next
    \/ ResetCall

ResetSpec == LedgerInit /\ [][ResetNext]_vars

\* The node actions fire whenever they stay enabled: the compiled graph runs
\* the node the router chose.
FairSpec ==
    /\ Spec
    /\ WF_vars(get_next_job)
    /\ WF_vars(check_stop_conditions)
    /\ WF_vars(request_human_approval)
    /\ WF_vars(dispatch_scraper)
    /\ WF_vars(dispatch_tagger)
    /\ WF_vars(create_graph_edges)
    /\ WF_vars(emit_events)
    /\ WF_vars(handle_error)
    /\ WF_vars(conditional_edge)

\* ------------------------------------------------------------------- claims
Terminal == {"completed", "failed"}
Gateways == {"dispatch_scraper", "dispatch_tagger", "create_graph_edges",
             "emit_events"}
Range(s) == {s[i] : i \in 1..Len(s)}

\* The step in which the node pc runs and returns.
NodeRuns == phase = "node" /\ phase' = "edge"

\* The step in which the router chooses the next node.
RouterDecides == phase = "edge" /\ phase' = "node"

\* A gateway is about to be invoked.
AtGateway == pc \in Gateways /\ phase = "node"

\* C1: whenever the error list is non-empty, the router's transition goes to
\* the failure handler, and the failure handler leaves the status failed.
C1_ErrorsForceFailed ==
    /\ [][(errors # <<>> /\ RouterDecides) => pc' = "handle_error"]_vars
    /\ [][(errors # <<>> /\ pc = "handle_error" /\ pc' # pc)
            => status' = "failed"]_vars

\* C2: once budget_used >= cap, a gateway is invoked only when the stop
\* conditions hold budget_cap_exceeded and the approval gate has cleared the
\* run.
C2_BudgetGate ==
    (budget_used >= BUDGET_CAP_USD /\ AtGateway)
        => /\ "budget_cap_exceeded" \in Range(stop_conditions)
           /\ ~need_human_approval
           /\ human_approval_reason # None

\* C3: a cost that takes the ledger's total above the cap is recorded only
\* for a run that has budget_cap_exceeded in its stop conditions and has
\* passed the approval gate.
C3_CapNeverSilentlyExceeded ==
    [][(total_cost <= BUDGET_CAP_USD /\ total_cost' > BUDGET_CAP_USD)
        => /\ "budget_cap_exceeded" \in Range(stop_conditions)
           /\ ~need_human_approval
           /\ human_approval_reason # None]_vars

\* C4: the ledger's total equals the sum of the per-job totals and the sum
\* of the per-category totals.
C4_LedgerSumsAgree ==
    /\ total_cost = SumJobCosts
    /\ total_cost = SumOperationsCost

\* C4 witness: after a reset, one cost in a category the ledger does not
\* know, booked under "other".
C4_Witness ==
    /\ calls >= 3
    /\ DOMAIN jobs = {"j1"}
    /\ Len(jobs["j1"].operations) = 1
    /\ operations_cost["other"] = 5
    /\ total_cost = 5

\* C5: a scrape.jobs message is removed (acknowledged) only in a step taken
\* when the run of that message already has a terminal status.
C5_AckOnlyAfterTerminal ==
    [][\A i \in 1..Len(topics["scrape.jobs"]) :
          LET m == topics["scrape.jobs"][i] IN
          (\A k \in 1..Len(topics'["scrape.jobs"]) :
                topics'["scrape.jobs"][k].seq # m.seq)
            => (message = <<m>> /\ status \in Terminal)]_vars

\* C6: after a run has ended in failed, the workflow goes on to dequeue the
\* next job.
C6_LoopContinuesAfterFailure ==
    status = "failed" => pc = "get_next_job"

\* Scenario A: job j1 with domain_verified true under the default cap, on a
\* ledger and an event topic that are still empty.
ScenarioA ==
    /\ BUDGET_CAP_USD = DefaultCap
    /\ job = [kind |-> "dict", id |-> "j1", domain_verified |-> "True"]
    /\ status = "job_received"
    /\ total_cost = 0
    /\ topics["analysis.jobs"] = <<>>

\* Events on analysis.jobs that reference the job id.
EventsFor(id) ==
    {i \in 1..Len(topics["analysis.jobs"]) :
        topics["analysis.jobs"][i].content.job_id = id}

\* C7: every dequeued job reaches a terminal status.
C7_EveryJobTerminates ==
    (status = "job_received") ~> (status \in Terminal)

\* C8: a scenario-A run whose gateways all succeed (no error is recorded)
\* ends completed, with the ledger at 0.07 and one event for j1.
C8_ScenarioA ==
    ScenarioA ~> \/ errors # <<>>
                 \/ /\ status = "completed"
                    /\ total_cost = ScrapeCost + TagCost
                    /\ Cardinality(EventsFor("j1")) = 1

\* Scenario B: the current job has domain_verified false and the
\* unknown-domain policy is enabled.
ScenarioB ==
    /\ STOP_ON_UNKNOWN_DOMAINS
    /\ job.kind = "dict"
    /\ job.domain_verified = "False"

\* The run has not passed the approval gate yet.
BeforeApproval == status \in {"job_received", "awaiting_approval"}

Stages == Gateways

\* C10: a stage that raises appends exactly one entry, naming that stage, to
\* an error list that was empty; the router then goes to the failure handler
\* and to no later stage; the handler sets failed and the workflow ends
\* without a crash.
C10_StageErrorContained ==
    /\ [][(pc \in Stages /\ NodeRuns /\ status' = "error")
            => (errors = <<>> /\ errors' = <<pc>>)]_vars
    /\ [][(pc \in Stages /\ NodeRuns /\ status' # "error")
            => errors' = <<>>]_vars
    /\ []((errors # <<>> /\ errors[1] \in Stages)
            => /\ Len(errors) = 1
               /\ \/ pc = errors[1] /\ phase = "edge" /\ status = "error"
                  \/ pc = "handle_error" /\ phase = "node" /\ status = "error"
                  \/ pc = END /\ status = "failed")
    /\ [][(errors # <<>> /\ errors[1] \in Stages /\ pc' # pc)
            => \/ pc' = "handle_error"
               \/ pc' = END /\ status' = "failed"]_vars

\* C10 witness: the event emitter raised and the run ended failed.
C10_Witness ==
    /\ errors = <<"emit_events">>
    /\ status = "failed"
    /\ pc = END
    /\ graph_results # None

\* Scenario D: the cap is 0.01 and the acquisition costs 0.02.
ScenarioD == BUDGET_CAP_USD = 1

\* C11: in scenario D the acquisition is dispatched although
\* would_exceed_budget(0.02) holds, and every stop-condition evaluation made
\* after that cost was recorded reports budget_cap_exceeded.
C11_ScenarioD ==
    [][/\ (ScenarioD /\ pc = "dispatch_scraper" /\ NodeRuns /\ errors' = <<>>)
            => (would_exceed_budget(ScrapeCost) /\ total_cost' >= ScrapeCost)
       /\ (ScenarioD /\ total_cost >= ScrapeCost
             /\ pc = "check_stop_conditions" /\ NodeRuns)
            => "budget_cap_exceeded" \in Range(stop_conditions')]_vars

\* A direct add_cost call returns in this step.
AddCostReturns == calls' = calls + 1 /\ call'[1].op = "add_cost"

\* Sum of the amounts of a job's recorded operations.
RECURSIVE SumCosts(_)
SumCosts(operations) ==
    IF operations = <<>> THEN 0
    ELSE operations[1].cost + SumCosts(Tail(operations))

\* C12: every add_cost call adds exactly its amount to the job's total and to
\* total_cost and returns the job's new total, so that after N calls a job's
\* total is the sum of the N amounts.
C12_AddCostAdditive ==
    [][AddCostReturns =>
        LET c == call'[1] IN
        /\ get_job_cost(jobs', c.job_id) = get_job_cost(jobs, c.job_id) + c.cost
        /\ total_cost' = total_cost + c.cost
        /\ c.result = get_job_cost(jobs', c.job_id)
        /\ get_job_cost(jobs', c.job_id) = SumCosts(jobs'[c.job_id].operations)
      ]_vars

\* C12 witness: three calls for one job, 0.05 + 0.05 + 0.02; the last one
\* returned 0.12.
C12_Witness ==
    /\ call # None
    /\ call[1].op = "add_cost"
    /\ call[1].job_id = "j1"
    /\ call[1].cost = 2
    /\ call[1].result = 12
    /\ DOMAIN jobs = {"j1"}
    /\ Len(jobs["j1"].operations) = 3
    /\ total_cost = 12

\* get_next_job returns having dequeued a job.
Dequeues == pc = "get_next_job" /\ NodeRuns /\ status' = "job_received"

\* C13: right after get_next_job dequeued a job, every field of the run but
\* the job and the status has its zero value.
C13_FreshRunAfterDequeue ==
    [][Dequeues =>
        /\ scrape_results' = None
        /\ tagging_results' = None
        /\ graph_results' = None
        /\ stop_conditions' = <<>>
        /\ budget_used' = 0
        /\ need_human_approval' = FALSE
        /\ human_approval_reason' = None
        /\ errors' = <<>>]_vars

\* C13 witness: the second job has just been dequeued, after a first run that
\* completed with results, a stop condition and 0.07 of budget used.
C13_Witness ==
    /\ pc = "get_next_job"
    /\ phase = "edge"
    /\ status = "job_received"
    /\ message # None
    /\ message[1].seq = 2
    /\ total_cost = ScrapeCost + TagCost
    /\ Len(topics["analysis.jobs"]) = 1
    /\ budget_used = 0
    /\ stop_conditions = <<>>
    /\ scrape_results = None

\* The events on analysis.jobs that the run of delivery seq published.
EventsOfRun(ts, seq) ==
    {i \in 1..Len(ts["analysis.jobs"]) : ts["analysis.jobs"][i].seq = seq}

Evaluated == pc = "check_stop_conditions" /\ phase = "edge"

\* C15: the evaluated stop conditions hold unknown_domain whenever the policy
\* is enabled and the job's domain_verified is false (or missing, which reads
\* as false), whatever budget_used and the cap are, and never when the policy
\* is disabled or domain_verified is true.
C15_UnknownDomainIndependentOfBudget ==
    Evaluated =>
        /\ (STOP_ON_UNKNOWN_DOMAINS /\ job.domain_verified \in {"False", "None"})
            => "unknown_domain" \in Range(stop_conditions)
        /\ (~STOP_ON_UNKNOWN_DOMAINS \/ job.domain_verified = "True")
            => "unknown_domain" \notin Range(stop_conditions)

\* C15 witness: an unverified domain evaluated with the budget over the cap:
\* both conditions are reported.
C15_Witness ==
    /\ Evaluated
    /\ STOP_ON_UNKNOWN_DOMAINS
    /\ job.domain_verified = "False"
    /\ budget_used = 10
    /\ BUDGET_CAP_USD = 1
    /\ stop_conditions = <<"budget_cap_exceeded", "unknown_domain">>
    /\ human_approval_reason = <<"budget_cap_exceeded, unknown_domain">>

\* C16: an add_cost call with a negative amount leaves total_cost, the
\* per-job totals and the per-category totals as they were.
C16_NegativeCostRejected ==
    [][(AddCostReturns /\ call'[1].cost < 0)
        => /\ total_cost' = total_cost
           /\ jobs' = jobs
           /\ operations_cost' = operations_cost]_vars

\* The scrape.jobs messages still held by the broker for delivery seq.
Pending(ts, seq) ==
    {i \in 1..Len(ts["scrape.jobs"]) : ts["scrape.jobs"][i].seq = seq}

\* C17: when get_next_job receives a message it cannot parse, the message is
\* acknowledged in that invocation (it leaves scrape.jobs, so it cannot be
\* delivered again) and the failure is recorded.
C17_MalformedMessageAcknowledged ==
    [][(/\ pc = "get_next_job"
        /\ NodeRuns
        /\ message' # None
        /\ message'[1].content.kind = "unparseable")
        => /\ Pending(topics', message'[1].seq) = {}
           /\ errors' # <<>>]_vars

\* No caller is inside add_cost.
Quiescent == \A w \in Workers : threads[w].at \in {"idle", "done"}

\* The amounts of the add_cost calls that have returned.
RECURSIVE SumReturned(_)
SumReturned(W) ==
    IF W = {} THEN 0
    ELSE LET w == CHOOSE w \in W : TRUE IN
         (IF threads[w].at = "done" THEN threads[w].cost ELSE 0)
            + SumReturned(W \ {w})

\* C18: whenever no concurrent add_cost call is in progress, no update has
\* been lost and the ledger's three sums agree.
C18_ConcurrentAddCostSerialized ==
    Quiescent =>
        /\ total_cost = SumReturned(Workers)
        /\ total_cost = SumJobCosts
        /\ total_cost = SumOperationsCost

\* C19: no step of a run without reset decreases total_cost.
C19_TotalNeverDecreases ==
    [][total_cost' >= total_cost]_vars

\* The statuses the specification lists.
ClosedSet ==
    {"pending", "job_received", "checking_stops", "awaiting_approval",
     "approved", "scraping_completed", "tagging_completed", "graph_completed",
     "completed", "failed", "no_jobs"}

\* C20 as stated: the status is always one of the listed statuses.
C20_StatusInClosedSet == status \in ClosedSet

\* C20: the status is always one of the ten words the coordinator assigns or
\* the default "pending"; "error", set by every except clause, is one of them
\* and "checking_stops" is not.
C20_StatusInAssignedSet ==
    status \in (ClosedSet \ {"checking_stops"}) \cup {"error"}

\* C20 witness: dispatch_scraper has caught an exception and returned with
\* status "error", before handle_error runs.
C20_Witness ==
    /\ status = "error"
    /\ pc = "dispatch_scraper"
    /\ phase = "edge"
    /\ errors = <<"dispatch_scraper">>

\* The stop conditions of the current run have been evaluated and the approval
\* gate has cleared it: only check_stop_conditions sets the approval reason,
\* and get_next_job resets it at the dequeue.
EvaluatedAndApproved ==
    /\ stop_conditions # <<>>
    /\ human_approval_reason = <<Join(stop_conditions)>>
    /\ ~need_human_approval

\* C21: in one run the stages are invoked in the order acquisition,
\* enrichment, graph update, event emission, each at most once, each only
\* after the stage before it succeeded and populated its result, and none
\* before the stop conditions of the run were evaluated; a stage that succeeds
\* populates its own result.
C21_StagesInOrder ==
    [][(pc \in Stages /\ NodeRuns) =>
        /\ errors = <<>>
        /\ message # None
        /\ EvaluatedAndApproved
        /\ EventsOfRun(topics, RunSeq) = {}
        /\ pc = "dispatch_scraper" =>
            /\ status = "approved"
            /\ scrape_results = None /\ tagging_results = None
            /\ graph_results = None
            /\ errors' = <<>> => scrape_results' # None
        /\ pc = "dispatch_tagger" =>
            /\ status = "scraping_completed"
            /\ scrape_results # None /\ tagging_results = None
            /\ graph_results = None
            /\ errors' = <<>> => tagging_results' # None
        /\ pc = "create_graph_edges" =>
            /\ status = "tagging_completed"
            /\ scrape_results # None /\ tagging_results # None
            /\ graph_results = None
            /\ errors' = <<>> => graph_results' # None
        /\ pc = "emit_events" =>
            /\ status = "graph_completed"
            /\ scrape_results # None /\ tagging_results # None
            /\ graph_results # None
            /\ errors' = <<>> => EventsOfRun(topics', RunSeq) # {}]_vars

\* C21 witness: the second run has gone through all four stages and published
\* its event.
C21_Witness ==
    /\ pc = "emit_events"
    /\ phase = "edge"
    /\ status = "completed"
    /\ message # None
    /\ message[1].seq = 2
    /\ scrape_results # None
    /\ tagging_results # None
    /\ graph_results # None
    /\ EventsOfRun(topics, 2) = {2}

\* The transition table of the specification, for an empty error list.
TransitionTable ==
    [st \in {"pending", "job_received", "awaiting_approval", "approved",
             "scraping_completed", "tagging_completed", "graph_completed",
             "completed", "no_jobs"} |->
        IF st \in {"pending", "job_received"} THEN "check_stop_conditions"
        ELSE IF st = "awaiting_approval" THEN "request_human_approval"
        ELSE IF st = "approved" THEN "dispatch_scraper"
        ELSE IF st = "scraping_completed" THEN "dispatch_tagger"
        ELSE IF st = "tagging_completed" THEN "create_graph_edges"
        ELSE IF st = "graph_completed" THEN "emit_events"
        ELSE IF st = "completed" THEN "get_next_job"
        ELSE END]

\* C22: with an empty error list the router's decision is the one the
\* transition table gives for the status.
C22_RouterFollowsTable ==
    [][(RouterDecides /\ errors = <<>> /\ status \in DOMAIN TransitionTable)
        => pc' = TransitionTable[status]]_vars

\* C22 as amended: with an empty error list the router follows the table for
\* every status but pending, and halts the workflow on pending.
C22_RouterFollowsTableButPending ==
    [][(RouterDecides /\ errors = <<>>) =>
        /\ status \in DOMAIN TransitionTable \ {"pending"}
            => pc' = TransitionTable[status]
        /\ status = "pending" => pc' = END]_vars

\* C22 witness: the router was called on a pending run without errors and
\* halted the workflow.
C22_Witness ==
    /\ status = "pending"
    /\ errors = <<>>
    /\ pc = END
    /\ phase = "node"

\* The conditions that hold for the current budget, cap, policy and job.
HoldingConditions ==
    {c \in {"budget_cap_exceeded", "unknown_domain"} :
        \/ c = "budget_cap_exceeded" /\ budget_used >= BUDGET_CAP_USD
        \/ c = "unknown_domain" /\ STOP_ON_UNKNOWN_DOMAINS
                                /\ job.domain_verified \in {"False", "None"}}

\* C23: after check_stop_conditions the stop conditions are exactly the
\* conditions that hold, each listed once, whatever the list held before;
\* budget_cap_exceeded is among them iff budget_used >= cap.
C23_RecomputedFromScratch ==
    Evaluated =>
        /\ Range(stop_conditions) = HoldingConditions
        /\ Len(stop_conditions) = Cardinality(HoldingConditions)
        /\ ("budget_cap_exceeded" \in Range(stop_conditions))
            <=> (budget_used >= BUDGET_CAP_USD)

\* C23 witness: an earlier evaluation had found budget_cap_exceeded (its
\* reason is still there); evaluated again under the cap with a verified
\* domain, nothing of it is left.
C23_Witness ==
    /\ Evaluated
    /\ human_approval_reason = <<"budget_cap_exceeded">>
    /\ budget_used < BUDGET_CAP_USD
    /\ job.domain_verified = "True"
    /\ stop_conditions = <<>>

\* The approval reason the specification gives for the conditions that hold:
\* their names in declaration order, comma-joined.
ExpectedReason ==
    IF HoldingConditions = {"budget_cap_exceeded", "unknown_domain"}
    THEN "budget_cap_exceeded, unknown_domain"
    ELSE IF HoldingConditions = {"budget_cap_exceeded"}
    THEN "budget_cap_exceeded"
    ELSE "unknown_domain"

\* C24: after a stop-condition evaluation need_human_approval is true exactly
\* when the evaluated list is non-empty, and then the approval reason is the
\* condition names comma-joined in declaration order and the status is
\* awaiting_approval.
C24_ApprovalFollowsEvaluation ==
    [][(pc = "check_stop_conditions" /\ NodeRuns) =>
        /\ need_human_approval' <=> (stop_conditions' # <<>>)
        /\ (stop_conditions' # <<>>) <=> (HoldingConditions # {})
        /\ stop_conditions' # <<>> =>
            /\ human_approval_reason' = <<ExpectedReason>>
            /\ status' = "awaiting_approval"
        /\ stop_conditions' = <<>> => UNCHANGED status]_vars

\* C24 witness: a job with an unverified domain evaluated under a cap of 0:
\* both conditions hold and the reason names them in declaration order.
C24_Witness ==
    /\ pc = "check_stop_conditions"
    /\ phase = "edge"
    /\ message # None
    /\ BUDGET_CAP_USD = 0
    /\ stop_conditions = <<"budget_cap_exceeded", "unknown_domain">>
    /\ need_human_approval
    /\ human_approval_reason = <<"budget_cap_exceeded, unknown_domain">>
    /\ status = "awaiting_approval"

\* C25: a run in status awaiting_approval is always on its way through the
\* approval gate (at the router before it or at the gate itself, never
\* terminal); the gate sets approved and clears need_human_approval; the
\* status awaiting_approval is only ever left for approved; and the router
\* sends an approved run to the acquisition gateway.
C25_GateAutoApproves ==
    /\ [](status = "awaiting_approval" =>
            /\ need_human_approval
            /\ errors = <<>>
            /\ \/ pc = "check_stop_conditions" /\ phase = "edge"
               \/ pc = "request_human_approval" /\ phase = "node")
    /\ [][/\ (pc = "request_human_approval" /\ NodeRuns)
                => /\ status = "awaiting_approval"
                   /\ status' = "approved"
                   /\ ~need_human_approval'
                   /\ errors' = <<>>
          /\ (status = "awaiting_approval" /\ status' # status)
                => status' = "approved"
          /\ (RouterDecides /\ status = "approved")
                => pc' = "dispatch_scraper"]_vars

\* C25 witness: a run that was awaiting approval has been approved and the
\* router has led it to the acquisition gateway.
C25_Witness ==
    /\ pc = "dispatch_scraper"
    /\ phase = "node"
    /\ status = "approved"
    /\ ~need_human_approval
    /\ human_approval_reason = <<"unknown_domain">>
    /\ message # None

\* The job carries neither a url nor a keyword.
NothingToAcquire ==
    /\ JobGet(job, "url", "None") = "None"
    /\ JobGet(job, "keywords", <<>>) = <<>>

\* C26: the acquisition gateway invoked for a job with neither a url nor a
\* keyword fails with an error and records no acquisition result and no cost.
C26_AcquisitionNeedsUrlOrKeywords ==
    [][(pc = "dispatch_scraper" /\ NodeRuns /\ NothingToAcquire) =>
        /\ errors' # <<>>
        /\ status' = "error"
        /\ scrape_results' = None
        /\ budget_used' = budget_used
        /\ UNCHANGED ledger]_vars

\* C27: the graph gateway invoked with an enrichment result that has no
\* entity fails with an error: it produces no graph result and does not set
\* graph_completed.
C27_GraphNeedsAnEntity ==
    [][(/\ pc = "create_graph_edges"
        /\ NodeRuns
        /\ tagging_results # None
        /\ tagging_results[1].entities = 0) =>
        /\ errors' # <<>>
        /\ status' = "error"
        /\ graph_results' = None]_vars

\* A direct would_exceed_budget call returns in this step.
WouldExceedReturns == calls' = calls + 1 /\ call'[1].op = "would_exceed_budget"

\* C28: would_exceed_budget(amount) returns true iff total_cost + amount is
\* strictly greater than the cap, and changes nothing in the ledger.
C28_WouldExceedStrict ==
    [][WouldExceedReturns =>
        /\ (call'[1].result = 1)
            <=> (total_cost + call'[1].cost > BUDGET_CAP_USD)
        /\ call'[1].result \in {0, 1}
        /\ UNCHANGED ledger]_vars

\* C28 witness: 0.05 is recorded and the amount asked about lands exactly on
\* the cap: the answer is false.
C28_Witness ==
    /\ call # None
    /\ call[1].op = "would_exceed_budget"
    /\ total_cost = TagCost
    /\ total_cost + call[1].cost = BUDGET_CAP_USD
    /\ call[1].result = 0

\* C29: an add_cost call with a category the ledger does not have is booked
\* under "other", and on the job and the total like any other cost; no call
\* ever changes the set of category keys.
C29_UnknownCategoryBecomesOther ==
    [][/\ DOMAIN operations_cost' = DOMAIN operations_cost
       /\ (AddCostReturns /\ call'[1].operation_type \notin OperationTypes) =>
            LET c == call'[1] IN
            /\ operations_cost' =
                    [operations_cost EXCEPT !["other"] = @ + c.cost]
            /\ total_cost' = total_cost + c.cost
            /\ get_job_cost(jobs', c.job_id)
                    = get_job_cost(jobs, c.job_id) + c.cost
            /\ jobs'[c.job_id].operations[Len(jobs'[c.job_id].operations)]
                    = [type |-> "other", cost |-> c.cost]]_vars

\* C29 witness: 0.02 for scraping, then 0.05 for the unknown category
\* "crawling": the 0.05 is under "other" and the keys are the five of the
\* constructor.
C29_Witness ==
    /\ call # None
    /\ call[1].op = "add_cost"
    /\ call[1].operation_type = "crawling"
    /\ call[1].cost = 5
    /\ operations_cost["other"] = 5
    /\ operations_cost["scraping"] = 2
    /\ total_cost = 7
    /\ DOMAIN operations_cost = OperationTypes

\* The rank of a job's priority: low < medium < high.
Rank(j) ==
    CHOOSE i \in 1..Len(Priorities) : Priorities[i] = JobGet(j, "priority", "medium")

\* C30: the job get_next_job dequeues has a priority that is highest among
\* the jobs that were waiting in scrape.jobs.
C30_HighestPriorityFirst ==
    [][Dequeues =>
        \A i \in 1..Len(topics["scrape.jobs"]) :
            Rank(job') >= Rank(topics["scrape.jobs"][i].content)]_vars

\* An explicit reset call returns in this step.
ResetReturns == calls' = calls + 1 /\ call'[1].op = "reset"

\* C31: a reset zeroes the total, every per-category total and every per-job
\* record in one step (get_job_cost is then 0 for every job id); no other
\* step, of the router or of a gateway, lowers or removes any ledger view.
C31_OnlyResetLowersLedger ==
    [][IF ResetReturns
       THEN /\ total_cost' = 0
            /\ \A t \in DOMAIN operations_cost' : operations_cost'[t] = 0
            /\ DOMAIN operations_cost' = OperationTypes
            /\ \A j \in DOMAIN jobs \cup SuppliedIds : get_job_cost(jobs', j) = 0
       ELSE /\ total_cost' >= total_cost
            /\ \A t \in DOMAIN operations_cost :
                    operations_cost'[t] >= operations_cost[t]
            /\ \A j \in DOMAIN jobs :
                    /\ j \in DOMAIN jobs'
                    /\ jobs'[j].total_cost >= jobs[j].total_cost
                    /\ Len(jobs'[j].operations) >= Len(jobs[j].operations)
      ]_vars

\* C31 witness: a run has recorded 0.07 and then the ledger was reset: the
\* run still shows its budget_used, the ledger shows nothing.
C31_Witness ==
    /\ call # None
    /\ call[1].op = "reset"
    /\ budget_used = ScrapeCost + TagCost
    /\ total_cost = 0
    /\ jobs = NoJobs
    /\ operations_cost = ZeroOperationsCost

\* The stage about to run lacks a result it requires.
OutOfOrder ==
    \/ pc = "dispatch_tagger" /\ scrape_results = None
    \/ pc = "create_graph_edges" /\ tagging_results = None
    \/ pc = "emit_events" /\ (tagging_results = None \/ graph_results = None)

\* C32: a stage invoked without the result it requires appends exactly one
\* error naming itself and changes no result, no cost (budget_used and the
\* ledger) and no topic.
C32_OutOfOrderFailsFast ==
    [][(pc \in CheckedStages /\ NodeRuns /\ OutOfOrder) =>
        /\ errors' = Append(errors, pc)
        /\ UNCHANGED <<scrape_results, tagging_results, graph_results>>
        /\ UNCHANGED <<budget_used, ledger>>
        /\ UNCHANGED topics]_vars

\* C32 witness: emit_events was called with a tagging result but no graph
\* result: one error, nothing published.
C32_Witness ==
    /\ pc = "emit_events"
    /\ phase = "edge"
    /\ tagging_results # None
    /\ graph_results = None
    /\ errors = <<"emit_events">>
    /\ status = "error"
    /\ topics = EmptyTopics
    /\ total_cost = 0

\* ------------------------------------------------- the agents' consumer loops
\* Iterations of a consumer loop that are followed.
MaxIterations == 3

\* The methods of the three queue clients, each with the least and the most
\* positional arguments a call can pass (self not counted).
\* src/common/pulsar_client.py
CommonClient ==
    [connect |-> <<0, 0>>, close |-> <<0, 0>>, create_producer |-> <<1, 1>>,
     create_consumer |-> <<2, 2>>, send_message |-> <<2, 3>>,
     receive_message |-> <<2, 3>>, acknowledge_message |-> <<3, 3>>,
     subscribe_and_process |-> <<3, 5>>]

\* The class src/agents/tagger/src/pulsar_client.py defines when its import
\* of the common client raises ImportError.
FallbackClient ==
    [connect |-> <<0, 0>>, close |-> <<0, 0>>, create_producer |-> <<1, 1>>,
     create_consumer |-> <<2, 2>>, send_message |-> <<2, 3>>,
     receive_message |-> <<2, 3>>, acknowledge_message |-> <<3, 3>>,
     subscribe_and_process |-> <<3, 5>>]

\* src/agents/scraper/src/pulsar_client.py
MockClient ==
    [connect |-> <<0, 0>>, close |-> <<0, 0>>, create_producer |-> <<1, 1>>,
     create_consumer |-> <<2, 2>>, send_message |-> <<2, 3>>,
     receive_message |-> <<1, 2>>, acknowledge |-> <<1, 1>>]

ClientApi(client) ==
    CASE client = "common" -> CommonClient
      [] client = "fallback" -> FallbackClient
      [] OTHER -> MockClient

\* The call client.method(...) with n positional arguments is bound to a
\* method; otherwise Python raises AttributeError or TypeError at the call.
Binds(client, method, n) ==
    /\ method \in DOMAIN ClientApi(client)
    /\ n >= ClientApi(client)[method][1]
    /\ n <= ClientApi(client)[method][2]

\* The class the tagger's "from pulsar_client import PulsarClient" yields: the
\* common client, or the fallback when the import inside the wrapper fails.
TaggerClients == {"common", "fallback"}

\* Bodies of scrape.results messages: a document (a JSON object), valid JSON
\* that is not an object, or bytes json.loads rejects.
DocumentBodies ==
    {b \in JobBodies : b.domain_verified = "None"}

\* A consumer loop of the given agent is about to start its first iteration.
Running(agent, client) ==
    [NoConsumer EXCEPT !.agent = agent, !.client = client, !.at = "running"]

\* One iteration of the loop of TaggerAgent.start (lines 396-428). fault
\* stands for an exception of process_document or of the publication.
TaggerAgent_start ==
    /\ consumer.agent = "tagger"
    /\ consumer.at = "running"
    /\ consumer.iterations < MaxIterations
    /\ IF ~Binds(consumer.client, "receive_message", 1)
       THEN \* line 398 raises; only KeyboardInterrupt is caught (line 430)
            /\ consumer' = [consumer EXCEPT !.at = "raised",
                                            !.iterations = @ + 1]
            /\ UNCHANGED topics
       ELSE LET received == receive_message(topics, "scrape.results") IN
            IF received = None
            THEN /\ consumer' = [consumer EXCEPT !.iterations = @ + 1]
                 /\ UNCHANGED topics
            ELSE \E fault \in BOOLEAN :
                    LET msg == received[1]
                        published ==
                            IF msg.content.kind = "dict" /\ ~fault
                            THEN send_message(topics, "tag.complete",
                                              msg.content, msg.seq)
                            ELSE topics
                    IN  IF ~Binds(consumer.client, "acknowledge", 1)
                        THEN \* the acknowledge of the branch raises, and so
                             \* does the one of line 425
                             /\ consumer' = [consumer EXCEPT
                                                !.at = "raised",
                                                !.iterations = @ + 1]
                             /\ topics' = published
                        ELSE /\ consumer' = [consumer EXCEPT
                                                !.iterations = @ + 1,
                                                !.acks = Append(@, msg.seq)]
                             /\ topics' = acknowledge(published, msg)
    /\ UNCHANGED <<config, agentState, pc, phase, message, ledger, uuids, sent,
                   calls, call, threads>>

\* The scraper (or any producer) puts a message on scrape.results.
PublishDocument ==
    /\ sent < MaxJobs
    /\ \E body \in DocumentBodies :
        topics' = send_message(topics, "scrape.results", body, sent + 1)
    /\ sent' = sent + 1
    /\ UNCHANGED <<config, agentState, pc, phase, message, ledger, uuids, caller>>

\* Every variable but consumer as the modules leave it at load, under the
\* environment defaults.
Loaded ==
    /\ BUDGET_CAP_USD = DefaultCap
    /\ STOP_ON_UNKNOWN_DOMAINS = TRUE
    /\ job = EmptyJob
    /\ scrape_results = None
    /\ tagging_results = None
    /\ graph_results = None
    /\ stop_conditions = <<>>
    /\ budget_used = 0
    /\ need_human_approval = FALSE
    /\ human_approval_reason = None
    /\ errors = <<>>
    /\ status = "pending"
    /\ pc = "get_next_job" /\ phase = "node"
    /\ message = None
    /\ total_cost = 0
    /\ jobs = NoJobs
    /\ operations_cost = ZeroOperationsCost
    /\ topics = EmptyTopics
    /\ uuids = 0
    /\ sent = 0
    /\ calls = 0
    /\ call = None
    /\ threads = IdleThreads

\* TaggerAgent.start has connected and created its consumer (lines 389-392).
TaggerInit ==
    /\ Loaded
    /\ \E client \in TaggerClients : consumer = Running("tagger", client)

TaggerNext ==
    \/ PublishDocument
    \/ TaggerAgent_start

TaggerSpec == TaggerInit /\ [][TaggerNext]_vars

\* The tagger's loop runs one iteration.
TaggerIterates ==
    consumer.agent = "tagger" /\ consumer'.iterations = consumer.iterations + 1

\* C33: an iteration of the tagger's loop that finds a message waiting on
\* scrape.results acknowledges that message, once (it leaves the topic and is
\* the one acknowledgement the iteration adds), whatever the branch, and the
\* loop keeps running.
C33_AcksEveryMessage ==
    [][(TaggerIterates /\ topics["scrape.results"] # <<>>) =>
        /\ consumer'.at = "running"
        /\ consumer'.acks =
                Append(consumer.acks, topics["scrape.results"][1].seq)
        /\ topics'["scrape.results"] = Tail(topics["scrape.results"])]_vars

\* ScraperAgent.process_job's result message (lines 222-234 and 250-261):
\* job_id is read under the key "job_id", with "unknown" for a job without it.
ScrapeResult(job_data, result_status) ==
    [kind |-> "dict", job_id |-> JobGet(job_data, "job_id", "unknown"),
     status |-> result_status]

\* One iteration of the loop of ScraperAgent.start (lines 283-296) with its
\* call of process_job. fault stands for an exception of the crew's run.
ScraperAgent_start ==
    /\ consumer.agent = "scraper"
    /\ consumer.at = "running"
    /\ consumer.iterations < MaxIterations
    /\ LET received == receive_message(topics, "scrape.jobs") IN
       IF received = None
       THEN /\ consumer' = [consumer EXCEPT !.iterations = @ + 1]
            /\ UNCHANGED topics
       ELSE LET msg == received[1] IN
            IF msg.content.kind = "unparseable"
            THEN \* json.loads raises at line 288, outside every try
                 /\ consumer' = [consumer EXCEPT !.at = "raised",
                                                 !.iterations = @ + 1]
                 /\ UNCHANGED topics
            ELSE IF msg.content.kind = "nondict"
            THEN \* job_data.get raises at line 183 and again at line 251
                 /\ consumer' = [consumer EXCEPT !.at = "raised",
                                                 !.iterations = @ + 1]
                 /\ UNCHANGED topics
            ELSE \E fault \in BOOLEAN :
                    LET published ==
                            send_message(topics, "scrape.results",
                                ScrapeResult(msg.content,
                                    IF fault THEN "error" ELSE "completed"),
                                msg.seq)
                    IN  /\ topics' = acknowledge(published, msg)
                        /\ consumer' = [consumer EXCEPT
                                            !.iterations = @ + 1,
                                            !.acks = Append(@, msg.seq)]
    /\ UNCHANGED <<config, agentState, pc, phase, message, ledger, uuids, sent,
                   calls, call, threads>>

\* ScraperAgent.start has connected and created its consumer (lines 277-280).
ScraperInit ==
    /\ Loaded
    /\ consumer = Running("scraper", "mock")

ScraperNext ==
    \/ Enqueue
    \/ ScraperAgent_start

ScraperSpec == ScraperInit /\ [][ScraperNext]_vars

\* The scraper's loop runs one iteration.
ScraperIterates ==
    consumer.agent = "scraper" /\ consumer'.iterations = consumer.iterations + 1

\* C34: an iteration of the scraper's loop that finds a message waiting on
\* scrape.jobs publishes exactly one message to scrape.results, of status
\* completed or error, carrying that delivery, and acknowledges the job
\* message (it leaves scrape.jobs) in the same iteration, after publishing.
C34_OneResultThenAck ==
    [][(ScraperIterates /\ topics["scrape.jobs"] # <<>>) =>
        LET msg == topics["scrape.jobs"][1]
            results == topics'["scrape.results"]
        IN  /\ Len(results) = Len(topics["scrape.results"]) + 1
            /\ results[Len(results)].seq = msg.seq
            /\ results[Len(results)].content.status \in {"completed", "error"}
            /\ topics'["scrape.jobs"] = Tail(topics["scrape.jobs"])
            /\ consumer'.acks = Append(consumer.acks, msg.seq)]_vars

\* The topic subscribe_and_process is called on.
SubscribedTopic == "scrape.jobs"

\* subscribe_and_process that acknowledges before it calls the callback.
subscribe_and_process_AcksFirst ==
    /\ consumer.agent = "subscriber"
    /\ consumer.at = "running"
    /\ consumer.iterations < MaxIterations
    /\ IF consumer.delivered >= Len(topics[SubscribedTopic])
       THEN consumer' = [consumer EXCEPT !.iterations = @ + 1,
                                         !.held = None,
                                         !.outcome = "None"]
       ELSE LET msg == topics[SubscribedTopic][consumer.delivered + 1] IN
            \E raises \in BOOLEAN :
                consumer' = [consumer EXCEPT
                    !.iterations = @ + 1,
                    !.delivered = @ + 1,
                    !.held = <<msg>>,
                    !.outcome = IF raises THEN "raised" ELSE "returned",
                    !.acks = IF consumer.ack_messages
                             THEN Append(@, msg.seq) ELSE @]
    /\ UNCHANGED <<config, agentState, pc, phase, message, ledger, topics,
                   uuids, sent, calls, call, threads>>

\* One iteration of the loop of PulsarClient.subscribe_and_process (lines
\* 192-209). The consumer's receive hands out the next message of the
\* subscription or raises its TimeOut; raises stands for an exception of the
\* callback, fault for one of the consumer's acknowledge. Each is caught at
\* line 205 and followed by the sleep of line 209.
subscribe_and_process ==
    /\ consumer.agent = "subscriber"
    /\ consumer.at = "running"
    /\ consumer.iterations < MaxIterations
    /\ IF consumer.delivered >= Len(topics[SubscribedTopic])
       THEN consumer' = [consumer EXCEPT !.iterations = @ + 1,
                                         !.held = None,
                                         !.outcome = "None"]
       ELSE LET msg == topics[SubscribedTopic][consumer.delivered + 1] IN
            \E raises \in BOOLEAN, fault \in BOOLEAN :
                consumer' = [consumer EXCEPT
                    !.iterations = @ + 1,
                    !.delivered = @ + 1,
                    !.held = <<msg>>,
                    !.outcome = IF raises THEN "raised" ELSE "returned",
                    !.acks = IF ~raises /\ consumer.ack_messages /\ ~fault
                             THEN Append(@, msg.seq) ELSE @]
    /\ UNCHANGED <<config, agentState, pc, phase, message, ledger, topics,
                   uuids, sent, calls, call, threads>>

\* subscribe_and_process has been called, with ack_messages given or left at
\* its default, and has created its consumer (lines 184-189).
SubscribeInit ==
    /\ Loaded
    /\ \E ack_messages \in BOOLEAN :
        consumer = [Running("subscriber", "common")
                        EXCEPT !.ack_messages = ack_messages]

SubscribeNext ==
    \/ Enqueue
    \/ subscribe_and_process

SubscribeSpec == SubscribeInit /\ [][SubscribeNext]_vars

\* The loop of subscribe_and_process runs one iteration.
SubscriberIterates ==
    /\ consumer.agent = "subscriber"
    /\ consumer'.iterations = consumer.iterations + 1

\* C35: an iteration of subscribe_and_process acknowledges at most the message
\* it handed to the callback, and only when the callback returned for it;
\* when the callback raised the message is not acknowledged; either way the
\* loop keeps running, and the next message is received when one is there.
C35_AckOnlyAfterCallbackReturned ==
    [][SubscriberIterates =>
        /\ consumer'.acks # consumer.acks =>
            /\ consumer'.outcome = "returned"
            /\ consumer.ack_messages
            /\ consumer'.acks = Append(consumer.acks, consumer'.held[1].seq)
        /\ consumer'.outcome = "raised" => consumer'.acks = consumer.acks
        /\ consumer'.at = "running"
        /\ consumer.delivered < Len(topics[SubscribedTopic]) =>
            /\ consumer'.held =
                    <<topics[SubscribedTopic][consumer.delivered + 1]>>
            /\ consumer'.delivered = consumer.delivered + 1]_vars

\* The callback raised for the first message, which stays unacknowledged; the
\* loop went on to the second, whose callback returned, and acknowledged it.
C35_Witness ==
    /\ consumer.agent = "subscriber"
    /\ consumer.at = "running"
    /\ consumer.delivered = 2
    /\ consumer.outcome = "returned"
    /\ consumer.acks = <<2>>

\* The id a run's costs are recorded under: the id of the job's message, or
\* for a job without one the id generated when the run was scraped.
RunJobId ==
    IF job.id # "None" THEN job.id
    ELSE IF scrape_results # None THEN scrape_results[1].job_id
    ELSE "None"

\* A job run is under way or has ended: a job was dequeued and the state
\* holds it.
InRun ==
    /\ message # None
    /\ job.kind = "dict"
    /\ status \notin {"pending", "no_jobs"}

\* C36: at every point of a job run, budget_used equals the ledger's
\* cumulative total for the run's job id.
C36_BudgetUsedMatchesLedger ==
    InRun => budget_used = get_job_cost(jobs, RunJobId)

\* The messages a run (the delivery numbered seq) sent to the scraper and to
\* the tagger.
StageMessagesOf(seq) ==
    {topics[t][k].content :
        <<t, k>> \in {tk \in {"scrape.results", "tag.complete"} \X (1..MaxJobs * 2) :
                        /\ tk[2] <= Len(topics[tk[1]])
                        /\ topics[tk[1]][tk[2]].seq = seq}}

\* C37: the job_id of every event on analysis.jobs is an id the ledger holds
\* costs for, and is the job_id of the messages the same run sent to the
\* scraper and to the tagger.
C37_OneJobIdEverywhere ==
    \A i \in 1..Len(topics["analysis.jobs"]) :
        LET event == topics["analysis.jobs"][i] IN
        /\ event.content.job_id \in DOMAIN jobs
        /\ \A sent_job \in StageMessagesOf(event.seq) :
                sent_job.job_id = event.content.job_id

\* ------------------------------------------- the mock client called directly
\* The body of the messages sent in direct calls.
SentBody == [kind |-> "dict", id |-> "j1", domain_verified |-> "None"]

\* A caller invokes send_message(topic, content).
SendMessageCall ==
    /\ consumer.agent = "client"
    /\ sent < MaxJobs
    /\ \E topic \in TopicNames :
        topics' = send_message(topics, topic, SentBody, sent + 1)
    /\ sent' = sent + 1
    /\ UNCHANGED <<config, agentState, pc, phase, message, ledger, uuids, caller>>

\* A caller invokes receive_message(topic) and keeps what it returns (with
\* the topic it asked for).
ReceiveMessageCall ==
    /\ consumer.agent = "client"
    /\ calls < MaxCalls
    /\ \E topic \in TopicNames :
        LET received == receive_message(topics, topic) IN
        consumer' = [consumer EXCEPT
            !.held = IF received = None THEN None
                     ELSE <<[message |-> received[1], topic |-> topic]>>]
    /\ calls' = calls + 1
    /\ UNCHANGED <<config, agentState, pc, phase, message, ledger, topics,
                   uuids, sent, call, threads>>

\* The caller invokes acknowledge(message) with the message it holds.
AcknowledgeCall ==
    /\ consumer.agent = "client"
    /\ calls < MaxCalls
    /\ consumer.held # None
    /\ topics' = acknowledge(topics, consumer.held[1].message)
    /\ consumer' = [consumer EXCEPT
            !.held = None,
            !.acks = Append(@, consumer.held[1].message.seq)]
    /\ calls' = calls + 1
    /\ UNCHANGED <<config, agentState, pc, phase, message, ledger, uuids, sent,
                   call, threads>>

\* A client has been constructed (pulsar_client.py:20-36).
QueueInit ==
    /\ Loaded
    /\ consumer = [NoConsumer EXCEPT !.agent = "client", !.client = "mock"]

QueueNext ==
    \/ SendMessageCall
    \/ ReceiveMessageCall
    \/ AcknowledgeCall

QueueSpec == QueueInit /\ [][QueueNext]_vars

\* acknowledge(message) returns.
AcknowledgeReturns ==
    consumer.agent = "client" /\ consumer'.acks # consumer.acks

\* The sequence without the message of the given delivery.
Without(s, seq) == SelectSeq(s, LAMBDA m : m.seq # seq)

\* C38: acknowledge(message) removes the message that receive_message
\* returned from the topic it was received from, and changes no other topic
\* and no other message.
C38_AcknowledgeRemovesTheReceived ==
    [][AcknowledgeReturns =>
        LET held == consumer.held[1] IN
        /\ topics'[held.topic] = Without(topics[held.topic], held.message.seq)
        /\ \A t \in TopicNames \ {held.topic} : topics'[t] = topics[t]]_vars

\* The three results that are present, in stage order.
PresentResults ==
    <<scrape_results # None, tagging_results # None, graph_results # None>>

\* C39: in every reachable state the status and the results agree:
\* scraping_completed goes with the scrape result alone, tagging_completed
\* with the scrape and tagging results, graph_completed and completed with
\* all three, and job_received, awaiting_approval and approved with none.
C39_StatusAgreesWithResults ==
    /\ status = "scraping_completed" => PresentResults = <<TRUE, FALSE, FALSE>>
    /\ status = "tagging_completed" => PresentResults = <<TRUE, TRUE, FALSE>>
    /\ status \in {"graph_completed", "completed"}
            => PresentResults = <<TRUE, TRUE, TRUE>>
    /\ status \in {"job_received", "awaiting_approval", "approved"}
            => PresentResults = <<FALSE, FALSE, FALSE>>

\* The second job has been dequeued and approved after a first run that
\* completed with all three results: none of them is left.
C39_Witness ==
    /\ status = "approved"
    /\ message # None
    /\ message[1].seq = 2
    /\ Len(topics["analysis.jobs"]) = 1
    /\ PresentResults = <<FALSE, FALSE, FALSE>>

\* ------------------------------------------- the dispatch stages on any job id
\* Ids of the jobs the dispatch stages are run on: given, missing, and one
\* that is not a string.
DispatchedIds == {"j1", "None"} \cup UnhashableIds

\* dispatch_scraper or dispatch_tagger is about to run for an approved job;
\* dispatch_tagger may also be called with the scrape result missing.
DispatchInit ==
    /\ BUDGET_CAP_USD \in Caps
    /\ STOP_ON_UNKNOWN_DOMAINS = TRUE
    /\ \E id \in DispatchedIds :
        job = [kind |-> "dict", id |-> id, domain_verified |-> "True"]
    /\ pc \in {"dispatch_scraper", "dispatch_tagger"} /\ phase = "node"
    /\ scrape_results \in
            (IF pc = "dispatch_scraper" THEN {None}
             ELSE {None, <<[job_id |-> JobIdOr(job, uuid4(0)),
                            content |-> <<>>]>>})
    /\ tagging_results = None
    /\ graph_results = None
    /\ stop_conditions = <<>>
    /\ budget_used = 0
    /\ need_human_approval = FALSE
    /\ human_approval_reason = None
    /\ errors = <<>>
    /\ status = "job_received"
    /\ message = <<[content |-> job, seq |-> 1, message_id |-> 0]>>
    /\ total_cost = 0
    /\ jobs = NoJobs
    /\ operations_cost = ZeroOperationsCost
    /\ topics = EmptyTopics
    /\ uuids = 0
    /\ sent = 1
    /\ calls = 0
    /\ call = None
    /\ threads = IdleThreads
    /\ consumer = NoConsumer

DispatchNext ==
    \/ dispatch_scraper
    \/ dispatch_tagger
    \/ conditional_edge

DispatchSpec == DispatchInit /\ [][DispatchNext]_vars

\* dispatch_scraper or dispatch_tagger runs and ends with an error.
DispatchFails ==
    /\ pc \in {"dispatch_scraper", "dispatch_tagger"}
    /\ NodeRuns
    /\ status' = "error"

==============================================================================
